---- MODULE Spec2Model ----
(***************************************************************************)
(* Model of convert_linear_model_to_json                                   *)
(* (prep/convert_linear_model_pkl2json/convert_linear_model_pkl2json.py):  *)
(* a pickled linear model is loaded, its coefficient matrix and intercept  *)
(* vector are turned into nested lists, a record is assembled and written  *)
(* as JSON text to a destination file.                                     *)
(*                                                                         *)
(* Numbers are fixed-point: the integer k stands for the float k/10, whose *)
(* Python repr has exactly one fractional digit.  A file is a sequence of  *)
(* characters; the body of a JSON string literal is kept as one element.   *)
(***************************************************************************)
EXTENDS Integers, Sequences, FiniteSets, TLC

\* ---------------------------------------------------------------- bounds
MaxRows == 2
MaxCols == 2

\* ------------------------------------------------------- text primitives
Quote == "\""
Digits == <<"0", "1", "2", "3", "4", "5", "6", "7", "8", "9">>
DigitChar(d) == Digits[d + 1]
IsDigit(c) == \E d \in 0..9 : Digits[d + 1] = c
DigitVal(c) == CHOOSE d \in 0..9 : Digits[d + 1] = c
Abs(k) == IF k < 0 THEN -k ELSE k

RECURSIVE IntRepr(_)
\* int.__repr__ of a non-negative integer, as json.dump writes it
IntRepr(n) ==
    IF n < 10 THEN <<DigitChar(n)>>
    ELSE IntRepr(n \div 10) \o <<DigitChar(n % 10)>>

\* float.__repr__ of k/10: optional sign, integer digits, ".", one digit
FloatRepr(k) ==
    (IF k < 0 THEN <<"-">> ELSE <<>>)
        \o IntRepr(Abs(k) \div 10) \o <<".">> \o <<DigitChar(Abs(k) % 10)>>

StrRepr(s) == <<Quote, s, Quote>>
ItemSep == <<",", " ">>
KeySep == <<":", " ">>
Key(k) == StrRepr(k) \o KeySep

RECURSIVE JoinFloats(_)
JoinFloats(xs) ==
    IF Len(xs) = 0 THEN <<>>
    ELSE IF Len(xs) = 1 THEN FloatRepr(xs[1])
    ELSE FloatRepr(xs[1]) \o ItemSep \o JoinFloats(Tail(xs))

EncodeFloatList(xs) == <<"[">> \o JoinFloats(xs) \o <<"]">>

RECURSIVE JoinRows(_)
JoinRows(rows) ==
    IF Len(rows) = 0 THEN <<>>
    ELSE IF Len(rows) = 1 THEN EncodeFloatList(rows[1])
    ELSE EncodeFloatList(rows[1]) \o ItemSep \o JoinRows(Tail(rows))

EncodeMatrix(rows) == <<"[">> \o JoinRows(rows) \o <<"]">>

RECURSIVE JoinStrs(_)
JoinStrs(ss) ==
    IF Len(ss) = 0 THEN <<>>
    ELSE IF Len(ss) = 1 THEN StrRepr(ss[1])
    ELSE StrRepr(ss[1]) \o ItemSep \o JoinStrs(Tail(ss))

EncodeStrList(ss) == <<"[">> \o JoinStrs(ss) \o <<"]">>

EncodeMetadata(md) ==
    <<"{">> \o Key("description") \o StrRepr(md.description)
        \o ItemSep \o Key("features") \o EncodeStrList(md.features)
        \o ItemSep \o Key("created_from") \o StrRepr(md.created_from)
        \o <<"}">>

\* json.dump writes the record member by member, in insertion order of the
\* dict; the writes are grouped here into one chunk per top-level member.
MemberOrder == <<"weights", "biases", "input_dim", "output_dim", "metadata">>
NumChunks == Len(MemberOrder)
DumpChunk(rec, c) ==
    CASE c = 1 -> <<"{">> \o Key("weights") \o EncodeMatrix(rec.weights)
      [] c = 2 -> ItemSep \o Key("biases") \o EncodeFloatList(rec.biases)
      [] c = 3 -> ItemSep \o Key("input_dim") \o IntRepr(rec.input_dim)
      [] c = 4 -> ItemSep \o Key("output_dim") \o IntRepr(rec.output_dim)
      [] c = 5 -> ItemSep \o Key("metadata") \o EncodeMetadata(rec.metadata)
                    \o <<"}">>

\* the whole text json.dump produces for a record
Serialize(rec) ==
    DumpChunk(rec, 1) \o DumpChunk(rec, 2) \o DumpChunk(rec, 3)
        \o DumpChunk(rec, 4) \o DumpChunk(rec, 5)

\* ------------------------------------------------ reading the file back
\* A JSON reader for the emitted format (json.load on the consumer's side).
\* A position of 0 means the text did not parse.
At(s, i) == IF i \in 1..Len(s) THEN s[i] ELSE "EOF"

RECURSIVE ExpectFrom(_, _, _, _)
ExpectFrom(s, i, toks, k) ==
    IF k > Len(toks) THEN i
    ELSE IF At(s, i) = toks[k] THEN ExpectFrom(s, i + 1, toks, k + 1)
    ELSE 0
Expect(s, i, toks) == IF i = 0 THEN 0 ELSE ExpectFrom(s, i, toks, 1)

RECURSIVE ParseDigits(_, _, _)
ParseDigits(s, i, acc) ==
    IF IsDigit(At(s, i))
    THEN ParseDigits(s, i + 1, acc * 10 + DigitVal(At(s, i)))
    ELSE [val |-> acc, pos |-> i]

ParseInt(s, i) ==
    IF i > 0 /\ IsDigit(At(s, i)) THEN ParseDigits(s, i, 0)
    ELSE [val |-> 0, pos |-> 0]

\* a float literal: [-] digits "." digit, read back as tenths
ParseFloat(s, i) ==
    LET neg == At(s, i) = "-"
        j == IF neg THEN i + 1 ELSE i
        d == ParseInt(s, IF i = 0 THEN 0 ELSE j)
        ok == /\ d.pos > 0
              /\ At(s, d.pos) = "."
              /\ IsDigit(At(s, d.pos + 1))
              /\ ~IsDigit(At(s, d.pos + 2))
        mag == d.val * 10 + DigitVal(At(s, d.pos + 1))
    IN  IF ok THEN [val |-> IF neg THEN -mag ELSE mag, pos |-> d.pos + 2]
        ELSE [val |-> 0, pos |-> 0]

RECURSIVE ParseFloats(_, _, _)
ParseFloats(s, i, acc) ==
    LET f == ParseFloat(s, i)
    IN  IF f.pos = 0 THEN [val |-> <<>>, pos |-> 0]
        ELSE IF At(s, f.pos) = "]"
        THEN [val |-> Append(acc, f.val), pos |-> f.pos + 1]
        ELSE IF Expect(s, f.pos, ItemSep) > 0
        THEN ParseFloats(s, f.pos + 2, Append(acc, f.val))
        ELSE [val |-> <<>>, pos |-> 0]

ParseFloatList(s, i) ==
    IF Expect(s, i, <<"[">>) = 0 THEN [val |-> <<>>, pos |-> 0]
    ELSE IF At(s, i + 1) = "]" THEN [val |-> <<>>, pos |-> i + 2]
    ELSE ParseFloats(s, i + 1, <<>>)

RECURSIVE ParseRows(_, _, _)
ParseRows(s, i, acc) ==
    LET r == ParseFloatList(s, i)
    IN  IF r.pos = 0 THEN [val |-> <<>>, pos |-> 0]
        ELSE IF At(s, r.pos) = "]"
        THEN [val |-> Append(acc, r.val), pos |-> r.pos + 1]
        ELSE IF Expect(s, r.pos, ItemSep) > 0
        THEN ParseRows(s, r.pos + 2, Append(acc, r.val))
        ELSE [val |-> <<>>, pos |-> 0]

ParseMatrix(s, i) ==
    IF Expect(s, i, <<"[">>) = 0 THEN [val |-> <<>>, pos |-> 0]
    ELSE IF At(s, i + 1) = "]" THEN [val |-> <<>>, pos |-> i + 2]
    ELSE ParseRows(s, i + 1, <<>>)

ParseStr(s, i) ==
    IF /\ i > 0
       /\ At(s, i) = Quote
       /\ i + 2 <= Len(s)
       /\ At(s, i + 1) # Quote
       /\ At(s, i + 2) = Quote
    THEN [val |-> s[i + 1], pos |-> i + 3]
    ELSE [val |-> "", pos |-> 0]

RECURSIVE ParseStrs(_, _, _)
ParseStrs(s, i, acc) ==
    LET x == ParseStr(s, i)
    IN  IF x.pos = 0 THEN [val |-> <<>>, pos |-> 0]
        ELSE IF At(s, x.pos) = "]"
        THEN [val |-> Append(acc, x.val), pos |-> x.pos + 1]
        ELSE IF Expect(s, x.pos, ItemSep) > 0
        THEN ParseStrs(s, x.pos + 2, Append(acc, x.val))
        ELSE [val |-> <<>>, pos |-> 0]

ParseStrList(s, i) ==
    IF Expect(s, i, <<"[">>) = 0 THEN [val |-> <<>>, pos |-> 0]
    ELSE IF At(s, i + 1) = "]" THEN [val |-> <<>>, pos |-> i + 2]
    ELSE ParseStrs(s, i + 1, <<>>)

\* the whole file: ok is TRUE exactly when the text is one complete record
ParseRecord(s) ==
    LET w  == ParseMatrix(s, Expect(s, 1, <<"{">> \o Key("weights")))
        b  == ParseFloatList(s, Expect(s, w.pos, ItemSep \o Key("biases")))
        n  == ParseInt(s, Expect(s, b.pos, ItemSep \o Key("input_dim")))
        m  == ParseInt(s, Expect(s, n.pos, ItemSep \o Key("output_dim")))
        d  == ParseStr(s, Expect(s, m.pos, ItemSep \o Key("metadata")
                                    \o <<"{">> \o Key("description")))
        fs == ParseStrList(s, Expect(s, d.pos, ItemSep \o Key("features")))
        c  == ParseStr(s, Expect(s, fs.pos, ItemSep \o Key("created_from")))
        e  == Expect(s, c.pos, <<"}", "}">>)
    IN  [ok |-> e > 0 /\ e = Len(s) + 1,
         weights |-> w.val, biases |-> b.val,
         input_dim |-> n.val, output_dim |-> m.val,
         description |-> d.val, features |-> fs.val, created_from |-> c.val]

\* ------------------------------------------------------------ the inputs
\* metadata constants of the record (lines 33-35)
Description == "Linear projection model for SPARC articulatory features"
Features ==
    <<"ul_x", "ul_y", "ll_x", "ll_y", "li_x", "li_y",
      "tt_x", "tt_y", "tb_x", "tb_y", "td_x", "td_y">>

\* numeric content of the arrays, in tenths: 1.0, -0.5, 2.5, 0.0, -12.0, ...
ValCycle == <<10, -5, 25, 0, -120, 5, 35>>
Seeds == {0, 3}
Buffer(seed, len) ==
    [k \in 1..len |-> ValCycle[((seed + k - 1) % Len(ValCycle)) + 1]]

\* a numpy array: its shape and its C-contiguous buffer
NdArray2(m, n, seed) == [shape |-> <<m, n>>, data |-> Buffer(seed, m * n)]
NdArray1(l, seed) == [shape |-> <<l>>, data |-> Buffer(seed, l)]
NoArray == [shape |-> <<>>, data |-> <<>>]

\* row counts tried: the small ones and that of the shipped model (one row
\* per articulatory feature)
RowCounts == (1..MaxRows) \cup {Len(Features)}
ColCounts == 1..MaxCols

\* what the pickle may hold: a fitted linear model (the intercept vector as
\* long as the coefficient matrix has rows, or one longer), an object with
\* no coef_, an object with coef_ and no intercept_
LinearModels ==
    {[kind |-> "LinearRegression",
      coef_ |-> NdArray2(m, n, seed),
      intercept_ |-> NdArray1(m + extra, seed + 1)] :
        m \in RowCounts, n \in ColCounts, seed \in Seeds, extra \in {0, 1}}
OtherObjects ==
    {[kind |-> "dict", coef_ |-> NoArray, intercept_ |-> NoArray],
     [kind |-> "partial", coef_ |-> NdArray2(1, 1, 0), intercept_ |-> NoArray]}
Artifacts == LinearModels \cup OtherObjects
NoObject == [kind |-> "none", coef_ |-> NoArray, intercept_ |-> NoArray]
HasCoef(o) == o.kind \in {"LinearRegression", "partial"}
HasIntercept(o) == o.kind = "LinearRegression"

\* paths are sequences of components
GoodPaths == {<<"a.pkl">>, <<"models", "b.pkl">>}
MissingPaths == {<<"gone.pkl">>}
CorruptPaths == {<<"models", "bad.pkl">>}
SrcPaths == GoodPaths \cup MissingPaths \cup CorruptPaths
DestA == <<"out", "m.json">>
DestB == <<"m2.json">>
DestNoDir == <<"nodir", "m.json">>
DestPaths == {DestA, DestB, DestNoDir}
Dirs == {"models", "out"}
DirExists(p) == Len(p) = 1 \/ p[1] \in Dirs

Absent == [exists |-> FALSE, data |-> <<>>]
File(d) == [exists |-> TRUE, data |-> d]
OldShort == <<"{", "}">>
OldLong == [i \in 1..400 |-> "#"]

NoRecord ==
    [weights |-> <<>>, biases |-> <<>>, input_dim |-> 0, output_dim |-> 0,
     metadata |-> [description |-> "", features |-> <<>>, created_from |-> ""]]

\* ------------------------------------------------------------- the state
VARIABLES
    artifact,      \* the object pickled in the source files
    dstfs,         \* destination file system: path -> file
    before,        \* dstfs as it was when the current invocation began
    exported,      \* path -> source path of the complete export it holds
    status,        \* "idle" | "running" | "done" | "failed"
    pc,            \* position in StepOrder
    exc,           \* the exception that ended the invocation, or "none"
    pkl_path, json_path,
    f_in,          \* the source handle is open
    f_out,         \* the destination handle: [open, pos]
    linear_model, weights, biases, model_json,
    written,       \* top-level members json.dump has written so far
    log,           \* what the invocation printed
    ret,           \* the value returned
    srcOpens, dstOpens

vars == <<artifact, dstfs, before, exported, status, pc, exc, pkl_path,
          json_path, f_in, f_out, linear_model, weights, biases, model_json,
          written, log, ret, srcOpens, dstOpens>>

locals == <<linear_model, weights, biases, model_json>>
Closed == [open |-> FALSE, pos |-> 0]

\* the statements of the function body, in program order
StepOrderDestFirst ==
    <<"open_dst", "open_src", "load", "extract", "assemble",
      "dump", "close_dst", "report", "return">>
StepOrder ==
    <<"open_src", "load", "extract", "assemble", "open_dst",
      "dump", "close_dst", "report", "return">>
Step == StepOrder[pc]
At_(name) == status = "running" /\ Step = name

\* ---------------------------------------------------- pure helper code
\* ndarray.tolist() of a 2-D array: nested lists, row by row
ToList2DColumnMajor(a) ==
    [i \in 1..a.shape[1] |->
        [j \in 1..a.shape[2] |-> a.data[(j - 1) * a.shape[1] + i]]]
ToList2D(a) ==
    [i \in 1..a.shape[1] |->
        [j \in 1..a.shape[2] |-> a.data[(i - 1) * a.shape[2] + j]]]
\* ndarray.tolist() of a 1-D array
ToList1D(a) == [i \in 1..a.shape[1] |-> a.data[i]]

\* os.path.basename
Basename(p) == p[Len(p)]

FeaturesShort == SubSeq(Features, 1, Len(Features) - 1)
MetadataFeatures == Features

CreatedFromDest(src, dst) == Basename(dst)
CreatedFrom(src, dst) == Basename(src)

\* lines 24-37
ModelJson(lm, w, b, src, dst) ==
    [weights |-> w, biases |-> b,
     input_dim |-> lm.coef_.shape[2],
     output_dim |-> lm.coef_.shape[1],
     metadata |-> [description |-> Description,
                   features |-> MetadataFeatures,
                   created_from |-> CreatedFrom(src, dst)]]

\* open(path, 'w') on an existing file
OpenKeep(old) == old
OpenTruncate(old) == <<>>

\* file.write(chunk) at position pos (0-based): overwrite, then extend
WriteAt(data, pos, chunk) ==
    LET end == pos + Len(chunk)
        n == IF end > Len(data) THEN end ELSE Len(data)
    IN  [i \in 1..n |->
            IF i > pos /\ i <= end THEN chunk[i - pos] ELSE data[i]]

\* an exception leaves the function: nothing after the raising statement runs
RaiseAndRetry(e) == status' = "running" /\ exc' = e /\ pc' = pc
Raise(e) == status' = "failed" /\ exc' = e /\ pc' = pc
Advance == status' = "running" /\ exc' = exc /\ pc' = pc + 1

\* ---------------------------------------------------------------- Init
Init ==
    /\ artifact \in Artifacts
    /\ \E old \in {Absent, File(OldShort), File(OldLong)} :
           dstfs = [p \in DestPaths |-> IF p = DestA THEN old ELSE Absent]
    /\ before = dstfs
    /\ exported = [p \in DestPaths |-> <<>>]
    /\ status = "idle" /\ pc = 1 /\ exc = "none"
    /\ pkl_path = <<>> /\ json_path = <<>>
    /\ f_in = FALSE /\ f_out = Closed
    /\ linear_model = NoObject /\ weights = <<>> /\ biases = <<>>
    /\ model_json = NoRecord
    /\ written = 0 /\ log = <<>> /\ ret = NoRecord
    /\ srcOpens = 0 /\ dstOpens = 0

\* ------------------------------------------------------------- actions
\* convert_linear_model_to_json(pkl_path, json_path) is called (line 60, or
\* by any caller): a fresh activation
Call ==
    /\ status \in {"idle", "done", "failed"}
    /\ \E p \in SrcPaths, j \in DestPaths :
           /\ pkl_path' = p
           /\ json_path' = j
    /\ status' = "running" /\ pc' = 1 /\ exc' = "none"
    /\ before' = dstfs
    /\ f_in' = FALSE /\ f_out' = Closed
    /\ linear_model' = NoObject /\ weights' = <<>> /\ biases' = <<>>
    /\ model_json' = NoRecord
    /\ written' = 0 /\ log' = <<>> /\ ret' = NoRecord
    /\ srcOpens' = 0 /\ dstOpens' = 0
    /\ UNCHANGED <<artifact, dstfs, exported>>

\* lines 15-16: print, open(pkl_path, 'rb')
OpenSource ==
    /\ At_("open_src")
    /\ log' = Append(log, <<"Loading linear model from", pkl_path>>)
    /\ srcOpens' = srcOpens + 1
    /\ \/ /\ pkl_path \in MissingPaths
          /\ Raise("FileNotFoundError")
          /\ f_in' = FALSE
       \/ /\ pkl_path \notin MissingPaths
          /\ Advance
          /\ f_in' = TRUE
    /\ UNCHANGED <<artifact, dstfs, before, exported, pkl_path, json_path,
                   f_out, locals, written, ret, dstOpens>>

\* line 17 inside a bare open(): the handle is closed only after a good load
PickleLoadNoWith ==
    /\ At_("load")
    /\ \/ /\ pkl_path \in CorruptPaths
          /\ Raise("UnpicklingError")
          /\ f_in' = f_in
          /\ linear_model' = linear_model
       \/ /\ pkl_path \notin CorruptPaths
          /\ Advance
          /\ f_in' = FALSE
          /\ linear_model' = artifact
    /\ UNCHANGED <<artifact, dstfs, before, exported, pkl_path, json_path,
                   f_out, weights, biases, model_json, written, log, ret,
                   srcOpens, dstOpens>>
\* line 17 and the end of the with block of line 16: pickle.load(f); the
\* handle is closed on the way out, by return or by exception
PickleLoad ==
    /\ At_("load")
    /\ f_in' = FALSE
    /\ \/ /\ pkl_path \in CorruptPaths
          /\ Raise("UnpicklingError")
          /\ linear_model' = linear_model
       \/ /\ pkl_path \notin CorruptPaths
          /\ Advance
          /\ linear_model' = artifact
    /\ UNCHANGED <<artifact, dstfs, before, exported, pkl_path, json_path,
                   f_out, weights, biases, model_json, written, log, ret,
                   srcOpens, dstOpens>>

\* lines 20-21: coef_.tolist(), intercept_.tolist()
Extract ==
    /\ At_("extract")
    /\ \/ /\ ~(HasCoef(linear_model) /\ HasIntercept(linear_model))
          /\ Raise("AttributeError")
          /\ weights' = IF HasCoef(linear_model)
                        THEN ToList2D(linear_model.coef_) ELSE weights
          /\ biases' = biases
       \/ /\ HasCoef(linear_model) /\ HasIntercept(linear_model)
          /\ Advance
          /\ weights' = ToList2D(linear_model.coef_)
          /\ biases' = ToList1D(linear_model.intercept_)
    /\ UNCHANGED <<artifact, dstfs, before, exported, pkl_path, json_path,
                   f_in, f_out, linear_model, model_json, written, log, ret,
                   srcOpens, dstOpens>>

\* lines 24-37: the record
Assemble ==
    /\ At_("assemble")
    /\ Advance
    /\ model_json' = ModelJson(linear_model, weights, biases,
                               pkl_path, json_path)
    /\ UNCHANGED <<artifact, dstfs, before, exported, pkl_path, json_path,
                   f_in, f_out, linear_model, weights, biases, written, log,
                   ret, srcOpens, dstOpens>>

\* lines 40-41: print, open(json_path, 'w'): creates or truncates
OpenDest ==
    /\ At_("open_dst")
    /\ log' = Append(log, <<"Saving model to", json_path>>)
    /\ dstOpens' = dstOpens + 1
    /\ \/ /\ ~DirExists(json_path)
          /\ Raise("FileNotFoundError")
          /\ UNCHANGED <<dstfs, exported, f_out>>
       \/ /\ DirExists(json_path)
          /\ Advance
          /\ dstfs' = [dstfs EXCEPT
                 ![json_path] = File(OpenTruncate(dstfs[json_path].data))]
          /\ exported' = [exported EXCEPT ![json_path] = <<>>]
          /\ f_out' = [open |-> TRUE, pos |-> 0]
    /\ UNCHANGED <<artifact, before, pkl_path, json_path, f_in, locals,
                   written, ret, srcOpens>>

\* line 42: json.dump(model_json, f) writes the next member, or the write
\* fails (no space left on the device) and the with block closes the handle
Dump ==
    /\ At_("dump")
    /\ \/ /\ written < NumChunks
          /\ LET chunk == DumpChunk(model_json, written + 1)
             IN  /\ dstfs' = [dstfs EXCEPT ![json_path] =
                        File(WriteAt(dstfs[json_path].data, f_out.pos, chunk))]
                 /\ f_out' = [f_out EXCEPT !.pos = f_out.pos + Len(chunk)]
          /\ written' = written + 1
          /\ UNCHANGED <<status, pc, exc>>
       \/ /\ written < NumChunks
          /\ Raise("OSError")
          /\ f_out' = Closed
          /\ UNCHANGED <<dstfs, written>>
       \/ /\ written = NumChunks
          /\ Advance
          /\ UNCHANGED <<dstfs, f_out, written>>
    /\ UNCHANGED <<artifact, before, exported, pkl_path, json_path, f_in,
                   locals, log, ret, srcOpens, dstOpens>>

\* the end of the with block of line 41
CloseDest ==
    /\ At_("close_dst")
    /\ Advance
    /\ f_out' = Closed
    /\ exported' = [exported EXCEPT ![json_path] = pkl_path]
    /\ UNCHANGED <<artifact, dstfs, before, pkl_path, json_path, f_in,
                   locals, written, log, ret, srcOpens, dstOpens>>

\* lines 45-48: the operator-facing report
Report ==
    /\ At_("report")
    /\ Advance
    /\ log' = log \o <<<<"Model converted successfully:", <<>>>>,
                       <<"Input dimensions", model_json.input_dim>>,
                       <<"Output dimensions", model_json.output_dim>>,
                       <<"JSON file size", Len(dstfs[json_path].data)>>>>
    /\ UNCHANGED <<artifact, dstfs, before, exported, pkl_path, json_path,
                   f_in, f_out, locals, written, ret, srcOpens, dstOpens>>

\* line 50
Return ==
    /\ At_("return")
    /\ status' = "done"
    /\ ret' = model_json
    /\ UNCHANGED <<artifact, dstfs, before, exported, pc, exc, pkl_path,
                   json_path, f_in, f_out, locals, written, log, srcOpens,
                   dstOpens>>

Next ==
    \/ Call
    \/ OpenSource
    \/ PickleLoad
    \/ Extract
    \/ Assemble
    \/ OpenDest
    \/ Dump
    \/ CloseDest
    \/ Report
    \/ Return

Spec == Init /\ [][Next]_vars

\* ------------------------------------------------------------- claims
Dest == dstfs[json_path]
Emitted == ParseRecord(Dest.data)
Rows == artifact.coef_.shape[1]
Cols == artifact.coef_.shape[2]
Mismatch(o) ==
    HasCoef(o) /\ HasIntercept(o) /\ o.intercept_.shape[1] # o.coef_.shape[1]
Reported ==
    \E i \in 1..Len(log) : log[i][1] = "Model converted successfully:"
HalfWritten == Dest.exists /\ Dest # before[json_path] /\ ~Emitted.ok

\* C1: whenever the conversion of a model with an m x n coefficient matrix
\* completes, the emitted record has output_dim = m, input_dim = n, m rows
\* of weights, n numbers in every row, and m biases.
C1_RecordShape ==
    status = "done" =>
        LET r == Emitted
        IN  /\ r.ok
            /\ r.output_dim = Rows /\ r.input_dim = Cols
            /\ Len(r.weights) = Rows
            /\ \A i \in 1..Len(r.weights) : Len(r.weights[i]) = Cols
            /\ Len(r.biases) = Rows

\* C2: when the intercept vector is not as long as the coefficient matrix
\* has rows, the conversion fails with ShapeMismatch and the destination
\* is never opened, created or written.
C2_ShapeMismatchRejected ==
    (status # "idle" /\ Mismatch(linear_model)) =>
        /\ dstOpens = 0
        /\ Dest = before[json_path]
        /\ status # "done"
        /\ status = "failed" => exc = "ShapeMismatch"

\* C3: after a failed conversion the destination never holds a half-written
\* record: the file is as it was before the invocation, or it holds a
\* complete record.
C3_NoPartialFile ==
    status = "failed" => ~HalfWritten

\* C4: after a successful export, the weights and biases read back from the
\* file are the source model's coefficient matrix and intercept vector,
\* element by element, in the same row and column order.
C4_RoundTrip ==
    status = "done" =>
        LET r == Emitted
        IN  /\ r.ok
            /\ Len(r.weights) = Rows
            /\ \A i \in 1..Rows :
                  /\ Len(r.weights[i]) = Cols
                  /\ \A j \in 1..Cols :
                        r.weights[i][j]
                            = artifact.coef_.data[(i - 1) * Cols + j]
            /\ r.biases = artifact.intercept_.data
C4_Witness ==
    /\ status = "done"
    /\ artifact.coef_.shape = <<2, 2>>
    /\ artifact.coef_.data[2] # artifact.coef_.data[3]
    /\ Emitted.weights[1][2] = artifact.coef_.data[2]

\* C5: when an export completes, every destination that holds a complete
\* export of the same source holds the same text as the one just written,
\* and created_from in it is the base name of the source path, whatever
\* the destination and whatever ran before.
C5_Idempotent ==
    status = "done" =>
        LET r == Emitted
        IN  /\ r.ok
            /\ exported[json_path] = pkl_path
            /\ r.created_from = pkl_path[Len(pkl_path)]
            /\ \A d \in DestPaths :
                   exported[d] = pkl_path => dstfs[d].data = Dest.data
C5_Witness ==
    /\ status = "done"
    /\ pkl_path = <<"models", "b.pkl">> /\ json_path = DestB
    /\ exported[DestA] = pkl_path /\ exported[DestB] = pkl_path
    /\ before[DestB].exists

\* C6 as claimed: in every emitted record metadata.features is as long as
\* output_dim, for every output_dim >= 1.
C6_FeaturesMatchOutputDim ==
    status = "done" =>
        LET r == Emitted
        IN  r.ok /\ Len(r.features) = r.output_dim
\* C6 as amended: in every emitted record metadata.features is present and
\* is the fixed list of twelve labels; its length equals output_dim exactly
\* when output_dim is 12.
C6_FeaturesFixedTwelve ==
    status = "done" =>
        LET r == Emitted
        IN  /\ r.ok
            /\ Len(r.features) = 12
            /\ \A i \in 1..Len(r.features) : r.features[i] = Features[i]
            /\ (Len(r.features) = r.output_dim) <=> (r.output_dim = 12)
C6_Witness ==
    status = "done" /\ Emitted.output_dim = 12 /\ Len(Emitted.features) = 12

\* C7: the source handle and the destination handle are never open at the
\* same time, and whenever the invocation has ended (by return or by any
\* exception) neither is open.
C7_HandlesReleased ==
    /\ ~(f_in /\ f_out.open)
    /\ status \in {"done", "failed"} => (~f_in /\ ~f_out.open)
C7_Witness ==
    /\ status = "failed" /\ exc = "UnpicklingError"
    /\ srcOpens = 1 /\ ~f_in

\* C8: within one invocation the source and the destination are each opened
\* at most once; a failed invocation has an exception to propagate, returns
\* no record and reports no success; and once it has failed nothing more of
\* it runs (the destination is not touched until a new invocation starts).
C8_NoRetry ==
    /\ [](/\ srcOpens <= 1
          /\ dstOpens <= 1
          /\ status = "failed" =>
                (exc # "none" /\ ret = NoRecord /\ ~Reported))
    /\ [][status = "failed" =>
             /\ dstfs' = dstfs
             /\ exported' = exported
             /\ status' \in {"failed", "running"}
             /\ status' = "running" => (pc' = 1 /\ srcOpens' = 0 /\ dstOpens' = 0)
         ]_vars
C8_Witness ==
    /\ status = "failed" /\ exc = "FileNotFoundError"
    /\ Step = "open_dst" /\ srcOpens = 1 /\ dstOpens = 1

\* C9: after a successful export to a path that already held a file, the
\* file is exactly the serialization of the new record: nothing of the
\* previous content remains, whatever it was and however long.
C9_Overwrite ==
    (status = "done" /\ before[json_path].exists) =>
        /\ Dest.exists
        /\ Dest.data = Serialize(ret)
        /\ Emitted.ok
C9_Witness ==
    /\ status = "done"
    /\ before[json_path].exists
    /\ Len(before[json_path].data) > Len(Dest.data)

\* C10: the destination is opened only after the source has been loaded and
\* the record assembled; so a failure to locate or deserialize the source,
\* or a model without coef_ or intercept_, leaves the destination as it was
\* (an existing file unchanged, no new file created).
C10_DestUntouchedOnSourceFailure ==
    /\ (status # "idle" /\ dstOpens > 0) =>
           (linear_model = artifact /\ model_json.output_dim > 0)
    /\ (status = "failed"
           /\ exc \in {"UnpicklingError", "AttributeError"}) =>
           (dstfs = before /\ dstOpens = 0)
    /\ (status = "failed" /\ exc = "FileNotFoundError"
           /\ pkl_path \in MissingPaths) =>
           (dstfs = before /\ dstOpens = 0)
C10_Witness ==
    /\ status = "failed" /\ exc = "UnpicklingError"
    /\ before[json_path].exists /\ Dest = before[json_path]

====
